---- MODULE Spec2Model ----
(***************************************************************************)
(* kubedog rollout trackers: the Deployment tracker                        *)
(* (pkg/tracker/deployment/tracker.go), the DaemonSet tracker              *)
(* (daemonset/tracker.go) and the Pod tracker with its feed adapter        *)
(* TrackPod (pkg/tracker/pod.go).                                          *)
(*                                                                         *)
(* Every goroutine is a process with a program counter.  A handler of a    *)
(* select loop is cut at the channel sends that can block within the       *)
(* bounds: a send on an unbuffered channel waits for its receiver (the     *)
(* receiver's action moves the sender on), a send on a channel of capacity *)
(* 1 waits for room.  A send on a channel of capacity 10 or more, which    *)
(* the bounds never fill, is part of the step before it.                   *)
(***************************************************************************)
EXTENDS Integers, Sequences, FiniteSets, TLC

(***************************************************************************)
(* Bounds of the model.                                                    *)
(***************************************************************************)
\* watch events the controller informer delivers in one Track invocation
MaxCtlEvents == 3
\* pods of the controller that exist in the cluster
MaxPods == 1
\* log chunks one pod's log followers produce
MaxChunks == 1
\* container errors one pod tracker reports
MaxContainerErrors == 1
\* containers in the manifest of the pod that TrackPod tracks
MaxContainers == 1
\* watch events the informer of the PodTracker delivers
MaxPodEvents == 2
\* failures the events informers report in one Track invocation
MaxFailures == 1
\* bytes of a container's log stream
MaxStreamLen == 4

\* the events the replica sets informer delivers
MaxRsEvents == 2

(***************************************************************************)
(* Channel capacities of deployment.NewTracker.                            *)
(***************************************************************************)
ReadyCap == 1
FailedCap == 1
AddedPodCap == 10
PodLogChunkCap == 1000
StatusReportCap == 100
resourceAddedCap == 1
resourceModifiedCap == 1
resourceDeletedCap == 1
resourceFailedCap == 1
podAddedCap == 1
podDoneCap == 1
replicaSetPodLogChunkCap == 1000
replicaSetPodErrorCap == 1
AddedReplicaSetCap == 10
replicaSetAddedCap == 1
replicaSetModifiedCap == 1
replicaSetDeletedCap == 1
\* capacity of PodTracker.ContainerLogChunk (NewPodTracker)
ContainerLogChunkCap == 1000

VARIABLES
    tracking,   \* which tracker runs: "deployment", "daemonset" or "pod"
    ctxDone,    \* the root context is cancelled (Context.Done() is closed)
    d,          \* the controller tracker (deployment.Tracker or daemonset.Tracker):
                \* its fields and the position of Track
    dInformer,  \* the goroutine of runDeploymentInformer or runDaemonSetInformer
    podsInformers, \* the pods informers started by runPodsInformer
    podTrackers,   \* per started Pod Tracker: the tracker, its Start goroutine, its adapter
    rsInformer,    \* the replica sets informer started by runReplicaSetsInformer
    feed,       \* history: the feed events in the order Track sent them
    seen,       \* history: the feed events in the order the consumer received them
    consuming,  \* the consumer still receives from the feed channels
    pod,        \* TrackPod's PodTracker: its fields and the position of the
                \* goroutine that runs pod.Track
    podInformer,   \* the goroutine of PodTracker.runInformer
    containers,    \* per container of the pod: the goroutine of runContainersTrackers
    trackPod,   \* TrackPod: its position and the error it returned
    calls,      \* history: the feed callbacks TrackPod invoked, with their results
    follower    \* one run of followContainerLogs: the log stream, lineBuf and
                \* the chunks sent on ContainerLogChunk

ctlVars == <<d, dInformer, podsInformers, podTrackers, rsInformer, feed, seen, consuming>>

podVars == <<pod, podInformer, containers, trackPod, calls>>

vars == <<tracking, ctxDone, ctlVars, podVars, follower>>

(***************************************************************************)
(* Values.                                                                 *)
(***************************************************************************)
\* a nil *appsv1.Deployment or *appsv1.DaemonSet
Nil == [nil |-> TRUE, complete |-> FALSE]

\* a snapshot of the controller; complete: its status reports the rollout as
\* complete
Object(complete) == [nil |-> FALSE, complete |-> complete]

Objects == {Object(c) : c \in BOOLEAN}

\* the names of the controller's pods in the cluster
PodNames == {<<"p1", "p2", "p3">>[i] : i \in 1..MaxPods}

\* utils.GetPodReplicaSetName(pod): every pod is owned by the replica set "rs1"
GetPodReplicaSetName(podName) == "rs1"

\* deploymentutil's template of the Deployment, and
\* utils.IsReplicaSetNew(deployment, rsMap, rsName)
DeploymentTemplate == "t1"

EmptyMap == [n \in {} |-> ""]

IsReplicaSetNew(deployment, rsMap, rsName) ==
    /\ ~deployment.nil
    /\ rsName \in DOMAIN rsMap
    /\ rsMap[rsName] = DeploymentTemplate

BoolStr(b) == IF b THEN "true" ELSE "false"

\* one feed event of the histories
Ev(type, podName, info) == [type |-> type, pod |-> podName, info |-> info]

\* utils.DeploymentReadyStatus(deployment, newStatus).IsReady
DeploymentReadyStatus(deployment, newStatus) == newStatus.complete

\* the ready result of DaemonSetRolloutStatus(object); its error is nil
DaemonSetRolloutStatus(object) == object.complete

\* DeploymentStatus{} and NewDeploymentStatus(...)
EmptyDeploymentStatus ==
    [object |-> Nil, IsReady |-> FALSE, IsFailed |-> FALSE, FailedReason |-> ""]

NewDeploymentStatus(t) ==
    [object |-> t.lastObject, IsReady |-> t.readyStatus,
     IsFailed |-> (t.State = "Failed"), FailedReason |-> t.failedReason]

\* what the histories keep of a status report: whether it is the empty one,
\* and else whether its controller status is that of a complete rollout
StatusInfo(s) ==
    IF s.object.nil THEN "empty"
    ELSE IF s.object.complete THEN "complete" ELSE "progressing"

Last(seq) == seq[Len(seq)]

(***************************************************************************)
(* deployment.NewTracker and daemonset.NewTracker: the DaemonSet tracker   *)
(* has the fields of the Deployment tracker but for CurrentReady,          *)
(* readyStatus, failedReason, knownReplicaSets and the replicaSet          *)
(* channels, which stay at their zero values.                              *)
(***************************************************************************)
NewTracker ==
    [State |-> "", CurrentReady |-> FALSE, readyStatus |-> FALSE,
     lastObject |-> Nil, failedReason |-> "",
     knownReplicaSets |-> EmptyMap, TrackedPods |-> <<>>,
     Ready |-> <<>>, Failed |-> <<>>, AddedPod |-> <<>>, AddedReplicaSet |-> <<>>,
     PodLogChunk |-> <<>>, StatusReport |-> <<>>,
     resourceAdded |-> <<>>, resourceModified |-> <<>>,
     resourceDeleted |-> <<>>, resourceFailed |-> <<>>,
     podAdded |-> <<>>, podDone |-> <<>>,
     replicaSetAdded |-> <<>>, replicaSetModified |-> <<>>, replicaSetDeleted |-> <<>>,
     replicaSetPodLogChunk |-> <<>>, replicaSetPodError |-> <<>>,
     replicaSetsInformers |-> 0, eventsInformers |-> 0, failures |-> 0,
     pc |-> "select", ready |-> FALSE, msg |-> "",
     rsPodError |-> [PodName |-> "", ReplicaSet |-> [Name |-> "", IsNew |-> FALSE]],
     result |-> ""]

\* pod.NewPodsInformer(...).Run(): one pods informer, which has yet to deliver
\* the Added event of every pod in todo
NewPodsInformer == [pc |-> "watch", todo |-> PodNames, err |-> ""]

\* the replica sets of the Deployment in the cluster, and the pod templates
\* their snapshots can have
ReplicaSetNames == {"rs1"}

ReplicaSetTemplates == {"t1", "t2"}

\* replicaset.NewReplicaSetInformer(...): n counts the events it delivered;
\* produced maps the name of every replica set whose latest event is not
\* Deleted to the snapshot of that event
NewReplicaSetInformer == [n |-> 0, produced |-> EmptyMap]

\* runPodTracker: pod.NewTracker, the Start goroutine and the adapter goroutine
PodNewTracker(podName, rsName) ==
    [ResourceName |-> podName, rsName |-> rsName,
     State |-> "Initial", pc |-> "select", err |-> "",
     ContainerLogChunk |-> <<>>, chunks |-> 0, containerErrors |-> 0,
     adapter |-> "select"]

\* order: the types of the events the callback sent, the latest send of each
\* type, oldest first
NewInformer ==
    [pc |-> "watch", err |-> "", n |-> 0, exists |-> FALSE, order |-> <<>>]

\* the containers of the pod's manifest, in the order of its Spec
AllContainersNames == [i \in 1..MaxContainers |-> <<"c1", "c2">>[i]]

ContainerNames == {AllContainersNames[i] : i \in 1..MaxContainers}

\* what a feed callback can return: nil, the sentinel StopTrack or another error
CallbackErrors == {"err1", "err2"}

CallbackResults == {"nil", "StopTrack"} \cup CallbackErrors

\* a nil *corev1.Pod
NilPod == [nil |-> TRUE, Phase |-> "", Container |-> ""]

\* a snapshot of the pod: Status.Phase, and the state of its container
\* statuses ("BackOff": Waiting with reason ImagePullBackOff, ErrImagePull or
\* CrashLoopBackOff)
PodObject(phase, state) == [nil |-> FALSE, Phase |-> phase, Container |-> state]

PodObjects ==
    {PodObject("Running", state) : state \in {"Waiting", "BackOff", "Running"}}
    \cup {PodObject(phase, "Terminated") : phase \in {"Succeeded", "Failed"}}

\* snapshots of a pod that stays Running while its container is restarted
RestartObjects ==
    {PodObject("Running", state) : state \in {"Waiting", "BackOff", "Running", "Terminated"}}

\* NewPodTracker, and the goroutine of TrackPod that calls pod.Track
NewPodTracker ==
    [State |-> "Initial", lastObject |-> NilPod,
     ContainerTrackerStates |-> [c \in {} |-> ""],
     TrackedContainers |-> <<>>,
     ContainerLogChunk |-> <<>>, containerDone |-> <<>>,
     pc |-> "runInformer", pending |-> <<>>, err |-> "nil"]

\* the bytes of a log stream: '\n', ' ' and another byte
NL == "\n"

SP == " "

Bytes == {NL, SP, "a"}

\* the log streams of at most this length
RECURSIVE StreamsOfLen(_)
StreamsOfLen(n) ==
    IF n = 0 THEN {<<>>}
    ELSE {Append(stream, byte) : stream \in StreamsOfLen(n - 1), byte \in Bytes}

Streams == UNION {StreamsOfLen(n) : n \in 0..MaxStreamLen}

\* followContainerLogs before its first Read: lineBuf is empty and nothing
\* was sent; stream is what Read has yet to return, whole all of the log
NewFollower(stream) ==
    [whole |-> stream, stream |-> stream, lineBuf |-> <<>>, chunks |-> <<>>,
     pc |-> "read"]

\* the trackers as their constructors leave them
Constructed(kind) ==
    /\ tracking = kind
    /\ ctxDone = FALSE
    /\ d = NewTracker
    /\ dInformer = NewInformer
    /\ podsInformers = <<>>
    /\ podTrackers = <<>>
    /\ rsInformer = NewReplicaSetInformer
    /\ feed = <<>>
    /\ seen = <<>>
    /\ consuming = TRUE
    /\ pod = NewPodTracker
    /\ podInformer = [pc |-> "", event |-> "", object |-> NilPod, n |-> 0,
                      exists |-> FALSE, added |-> 0]
    /\ containers = [c \in ContainerNames |-> [pc |-> "", err |-> "nil", chunks |-> 0,
                                              started |-> 0, followed |-> 0]]
    /\ trackPod = [pc |-> "select", result |-> "nil"]
    /\ calls = <<>>

\* what happens at the start of every run of a tracker
Start(kind) == Constructed(kind) /\ follower = NewFollower(<<>>)

\* deployment.NewTracker(...).Track() or daemonset.NewTracker(...).Track()
Init == \E kind \in {"deployment", "daemonset"} : Start(kind)

\* TrackPod
InitPod == Start("pod")

\* followContainerLogs on a log stream
InitLogs ==
    /\ Constructed("logs")
    /\ follower \in {NewFollower(stream) : stream \in Streams}

(***************************************************************************)
(* The root context.                                                       *)
(***************************************************************************)
Cancel ==
    /\ ~ctxDone
    /\ ctxDone' = TRUE
    /\ UNCHANGED <<podVars, follower, rsInformer, tracking, d, dInformer, podsInformers, podTrackers, feed, seen, consuming>>

(***************************************************************************)
(* runDeploymentInformer and runDaemonSetInformer: the goroutine around    *)
(* watchtools.UntilWithSync.                                               *)
(***************************************************************************)
\* the channel the callback sends an event of this type on has room
DInformerRoom(type) ==
    \/ type = "Added" /\ Len(d.resourceAdded) < resourceAddedCap
    \/ type = "Modified" /\ Len(d.resourceModified) < resourceModifiedCap
    \/ type = "Deleted" /\ Len(d.resourceDeleted) < resourceDeletedCap

\* the callback of UntilWithSync on the next event of the Deployment's life:
\* switch e.Type, a send on the channel of the type; watch.Error returns an
\* error, which the goroutine then sends on d.errors
DInformerEvent(type, object) ==
    /\ dInformer.pc = "watch"
    /\ dInformer.n < MaxCtlEvents
    /\ \/ type = "Added" /\ ~dInformer.exists /\ object \in Objects
       \/ type = "Modified" /\ dInformer.exists /\ object \in Objects
       \/ type = "Deleted" /\ dInformer.exists /\ object = Object(FALSE)
       \/ type = "Error" /\ object = Nil
    /\ type # "Error" => DInformerRoom(type)
    /\ d' = [d EXCEPT
            !.resourceAdded = IF type = "Added" THEN Append(@, object) ELSE @,
            !.resourceModified = IF type = "Modified" THEN Append(@, object) ELSE @,
            !.resourceDeleted = IF type = "Deleted" THEN Append(@, object) ELSE @]
    /\ dInformer' = [dInformer EXCEPT
            !.pc = IF type = "Error" THEN "errors" ELSE "watch",
            !.err = IF type = "Error" THEN "watch error" ELSE "",
            !.n = @ + 1,
            !.exists = IF type = "Added" THEN TRUE
                       ELSE IF type = "Deleted" THEN FALSE ELSE @,
            !.order = IF type = "Error" THEN @
                      ELSE Append(SelectSeq(@, LAMBDA sent : sent # type), type)]
    /\ UNCHANGED <<podVars, follower, rsInformer, tracking, ctxDone, podsInformers, podTrackers, feed, seen, consuming>>

\* UntilWithSync returns an error once the context is cancelled
DInformerCancelled ==
    /\ dInformer.pc = "watch"
    /\ ctxDone
    /\ dInformer' = [dInformer EXCEPT !.pc = "errors", !.err = "ErrWaitTimeout"]
    /\ UNCHANGED <<podVars, follower, rsInformer, tracking, ctxDone, d, podsInformers, podTrackers, feed, seen, consuming>>

(***************************************************************************)
(* Tracker.handleDeploymentState, with its send on StatusReport; the       *)
(* result ready is left in t.ready.                                        *)
(***************************************************************************)
HandleDeploymentState(t, object) ==
    LET prevReady == IF t.lastObject.nil THEN FALSE ELSE t.CurrentReady
        readyStatus == IF t.lastObject.nil
                       THEN DeploymentReadyStatus(object, object)
                       ELSE DeploymentReadyStatus(t.lastObject, object)
        set == [t EXCEPT !.readyStatus = readyStatus,
                         !.CurrentReady = readyStatus,
                         !.lastObject = object]
    IN [set EXCEPT !.StatusReport = Append(@, NewDeploymentStatus(set)),
                   !.ready = (prevReady = FALSE /\ readyStatus = TRUE)]

\* deployment: runReplicaSetsInformer and runEventsInformer
RunInformers(t) ==
    [t EXCEPT !.replicaSetsInformers = IF t.lastObject.nil THEN @ ELSE @ + 1,
              !.eventsInformers = @ + 1,
              !.pc = "select"]

\* daemonset: runEventsInformer
RunDaemonSetInformers(t) ==
    [t EXCEPT !.eventsInformers = IF t.lastObject.nil THEN @ ELSE @ + 1,
              !.pc = "select"]

\* runPodsInformer
RunPodsInformer(t, informers) ==
    IF t.lastObject.nil THEN informers ELSE Append(informers, NewPodsInformer)

(***************************************************************************)
(* Tracker.Track: the select loop.  The cases resourceDeleted, podDone,    *)
(* Context.Done and errors are the same in both trackers.                  *)
(***************************************************************************)
\* a variant of the resourceAdded case that sends on Added whatever d.State is
ResourceAddedInAnyState(t) ==
    LET handled == HandleDeploymentState(t, Head(t.resourceAdded))
        received == [handled EXCEPT !.resourceAdded = Tail(@)]
    IN [received EXCEPT !.State = "Started", !.pc = "Added"]

\* case object := <-d.resourceAdded, up to d.Added <- ready
ResourceAdded(t) ==
    LET handled == HandleDeploymentState(t, Head(t.resourceAdded))
        received == [handled EXCEPT !.resourceAdded = Tail(@)]
    IN IF received.State = ""
       THEN [received EXCEPT !.State = "Started", !.pc = "Added"]
       ELSE RunInformers(received)

DResourceAdded ==
    /\ tracking = "deployment"
    /\ d.pc = "select"
    /\ d.resourceAdded # <<>>
    /\ Len(d.StatusReport) < StatusReportCap
    /\ d' = ResourceAdded(d)
    /\ podsInformers' = IF d'.pc = "select"
                        THEN RunPodsInformer(d', podsInformers)
                        ELSE podsInformers
    /\ feed' = Append(feed, Ev("StatusReport", "", StatusInfo(Last(d'.StatusReport))))
    /\ UNCHANGED <<podVars, follower, rsInformer, tracking, ctxDone, dInformer, podTrackers, seen, consuming>>

\* d.Added <- ready was received: runReplicaSetsInformer, runPodsInformer,
\* runEventsInformer
DAddedRunInformers ==
    /\ d.pc = "informers"
    /\ d' = IF tracking = "deployment" THEN RunInformers(d)
            ELSE RunDaemonSetInformers(d)
    /\ podsInformers' = RunPodsInformer(d, podsInformers)
    /\ UNCHANGED <<podVars, follower, rsInformer, tracking, ctxDone, dInformer, podTrackers, feed, seen, consuming>>

\* case object := <-d.resourceModified, up to d.Ready <- true
ResourceModified(t) ==
    LET handled == HandleDeploymentState(t, Head(t.resourceModified))
    IN [handled EXCEPT !.resourceModified = Tail(@),
                       !.pc = IF handled.ready THEN "Ready" ELSE "select"]

DResourceModified ==
    /\ tracking = "deployment"
    /\ d.pc = "select"
    /\ d.resourceModified # <<>>
    /\ Len(d.StatusReport) < StatusReportCap
    /\ d' = ResourceModified(d)
    /\ feed' = Append(feed, Ev("StatusReport", "", StatusInfo(Last(d'.StatusReport))))
    /\ UNCHANGED <<podVars, follower, rsInformer, tracking, ctxDone, dInformer, podsInformers, podTrackers, seen, consuming>>

\* d.Ready <- true
DReady ==
    /\ d.pc = "Ready"
    /\ Len(d.Ready) < ReadyCap
    /\ d' = [d EXCEPT !.Ready = Append(@, TRUE), !.pc = "select"]
    /\ feed' = Append(feed, Ev("Ready", "", ""))
    /\ UNCHANGED <<podVars, follower, rsInformer, tracking, ctxDone, dInformer, podsInformers, podTrackers, seen, consuming>>

\* a variant of the resourceDeleted case that keeps lastObject
ResourceDeletedKeepingLastObject(t) ==
    [t EXCEPT !.resourceDeleted = Tail(@),
              !.StatusReport = Append(@, EmptyDeploymentStatus),
              !.State = "Deleted",
              !.msg = "resource deleted",
              !.pc = "Failed"]

\* case <-d.resourceDeleted, up to d.Failed <- "resource deleted"
ResourceDeleted(t) ==
    [t EXCEPT !.resourceDeleted = Tail(@),
              !.lastObject = Nil,
              !.StatusReport = Append(@, EmptyDeploymentStatus),
              !.State = "Deleted",
              !.msg = "resource deleted",
              !.pc = "Failed"]

DResourceDeleted ==
    /\ d.pc = "select"
    /\ d.resourceDeleted # <<>>
    /\ Len(d.StatusReport) < StatusReportCap
    /\ d' = ResourceDeleted(d)
    /\ feed' = Append(feed, Ev("StatusReport", "", "empty"))
    /\ UNCHANGED <<podVars, follower, rsInformer, tracking, ctxDone, dInformer, podsInformers, podTrackers, seen, consuming>>

\* an events informer (event.NewEventInformer with d.resourceFailed) reports
\* a failure of the controller
EventsInformerFailure ==
    /\ d.eventsInformers > 0
    /\ d.failures < MaxFailures
    /\ Len(d.resourceFailed) < resourceFailedCap
    /\ d' = [d EXCEPT !.resourceFailed = Append(@, "reason"), !.failures = @ + 1]
    /\ UNCHANGED <<podVars, follower, rsInformer, tracking, ctxDone, dInformer, podsInformers, podTrackers, feed, seen, consuming>>

\* deployment: case reason := <-d.resourceFailed, up to d.Failed <- reason
ResourceFailed(t) ==
    LET set == [t EXCEPT !.resourceFailed = Tail(@),
                         !.State = "Failed",
                         !.failedReason = Head(t.resourceFailed),
                         !.msg = Head(t.resourceFailed),
                         !.pc = "Failed"]
    IN IF t.lastObject.nil THEN set
       ELSE [set EXCEPT !.StatusReport = Append(@, NewDeploymentStatus(set))]

DResourceFailed ==
    /\ tracking = "deployment"
    /\ d.pc = "select"
    /\ d.resourceFailed # <<>>
    /\ Len(d.StatusReport) < StatusReportCap
    /\ d' = ResourceFailed(d)
    /\ feed' = IF d.lastObject.nil THEN feed
               ELSE Append(feed, Ev("StatusReport", "", StatusInfo(Last(d'.StatusReport))))
    /\ UNCHANGED <<podVars, follower, rsInformer, tracking, ctxDone, dInformer, podsInformers, podTrackers, seen, consuming>>

\* daemonset: case reason := <-d.resourceFailed, up to d.Failed <- reason
DaemonSetResourceFailed(t) ==
    [t EXCEPT !.resourceFailed = Tail(@),
              !.State = "Failed",
              !.msg = Head(t.resourceFailed),
              !.pc = "Failed"]

DsResourceFailed ==
    /\ tracking = "daemonset"
    /\ d.pc = "select"
    /\ d.resourceFailed # <<>>
    /\ d' = DaemonSetResourceFailed(d)
    /\ UNCHANGED <<podVars, follower, rsInformer, tracking, ctxDone, dInformer, podsInformers, podTrackers, feed, seen, consuming>>

\* a variant of the send on Failed after which Track returns nil
DFailedThenReturn ==
    /\ d.pc = "Failed"
    /\ Len(d.Failed) < FailedCap
    /\ d' = [d EXCEPT !.Failed = Append(@, d.msg), !.pc = "returned"]
    /\ feed' = Append(feed, Ev("Failed", "", d.msg))
    /\ UNCHANGED <<podVars, follower, rsInformer, tracking, ctxDone, dInformer, podsInformers, podTrackers, seen, consuming>>

\* d.Failed <- "resource deleted" and d.Failed <- reason
DFailed ==
    /\ d.pc = "Failed"
    /\ Len(d.Failed) < FailedCap
    /\ d' = [d EXCEPT !.Failed = Append(@, d.msg), !.pc = "select"]
    /\ feed' = Append(feed, Ev("Failed", "", d.msg))
    /\ UNCHANGED <<podVars, follower, rsInformer, tracking, ctxDone, dInformer, podsInformers, podTrackers, seen, consuming>>

\* case pod := <-d.podAdded: d.AddedPod <- rsPod; d.runPodTracker(pod.Name, rsName)
PodAdded(t) ==
    [t EXCEPT !.podAdded = Tail(@),
              !.AddedPod = Append(@,
                  [Name |-> Head(t.podAdded),
                   ReplicaSet |-> [Name |-> GetPodReplicaSetName(Head(t.podAdded)),
                                   IsNew |-> IsReplicaSetNew(t.lastObject, t.knownReplicaSets,
                                               GetPodReplicaSetName(Head(t.podAdded)))]]),
              !.TrackedPods = Append(@, Head(t.podAdded))]

DPodAdded ==
    /\ tracking = "deployment"
    /\ d.pc = "select"
    /\ d.podAdded # <<>>
    /\ Len(d.AddedPod) < AddedPodCap
    /\ d' = PodAdded(d)
    /\ podTrackers' = Append(podTrackers,
            PodNewTracker(Head(d.podAdded), GetPodReplicaSetName(Head(d.podAdded))))
    /\ feed' = Append(feed, Ev("AddedPod", Head(d.podAdded), ""))
    /\ UNCHANGED <<podVars, follower, rsInformer, tracking, ctxDone, dInformer, podsInformers, seen, consuming>>

\* case podName := <-d.podDone
DPodDone ==
    /\ tracking = "deployment"
    /\ d.pc = "select"
    /\ d.podDone # <<>>
    /\ LET podName == Head(d.podDone)
           keep(name) == name # podName
       IN d' = [d EXCEPT !.podDone = Tail(@),
                         !.TrackedPods = SelectSeq(@, keep)]
    /\ UNCHANGED <<podVars, follower, rsInformer, tracking, ctxDone, dInformer, podsInformers, podTrackers, feed, seen, consuming>>

\* case rsChunk := <-d.replicaSetPodLogChunk: d.PodLogChunk <- rsChunk
DReplicaSetPodLogChunk ==
    /\ tracking = "deployment"
    /\ d.pc = "select"
    /\ d.replicaSetPodLogChunk # <<>>
    /\ Len(d.PodLogChunk) < PodLogChunkCap
    /\ LET rsChunk == Head(d.replicaSetPodLogChunk)
           rsNew == IsReplicaSetNew(d.lastObject, d.knownReplicaSets,
                                    rsChunk.ReplicaSet.Name)
       IN /\ d' = [d EXCEPT !.replicaSetPodLogChunk = Tail(@),
                            !.PodLogChunk = Append(@,
                                [rsChunk EXCEPT !.ReplicaSet.IsNew = rsNew])]
          /\ feed' = Append(feed, Ev("PodLogChunk", rsChunk.PodName, ""))
    /\ UNCHANGED <<podVars, follower, rsInformer, tracking, ctxDone, dInformer, podsInformers, podTrackers, seen, consuming>>

\* case rsPodError := <-d.replicaSetPodError, up to d.PodError <- rsPodError
DReplicaSetPodError ==
    /\ tracking = "deployment"
    /\ d.pc = "select"
    /\ d.replicaSetPodError # <<>>
    /\ LET rsPodError == Head(d.replicaSetPodError)
           rsNew == IsReplicaSetNew(d.lastObject, d.knownReplicaSets,
                                    rsPodError.ReplicaSet.Name)
       IN d' = [d EXCEPT !.replicaSetPodError = Tail(@),
                         !.rsPodError = [rsPodError EXCEPT !.ReplicaSet.IsNew = rsNew],
                         !.pc = "PodError"]
    /\ UNCHANGED <<podVars, follower, rsInformer, tracking, ctxDone, dInformer, podsInformers, podTrackers, feed, seen, consuming>>

\* case <-d.Context.Done()
DContextDone ==
    /\ d.pc = "select"
    /\ ctxDone
    /\ d' = [d EXCEPT !.pc = "returned", !.result = "ErrTrackInterrupted"]
    /\ UNCHANGED <<podVars, follower, rsInformer, tracking, ctxDone, dInformer, podsInformers, podTrackers, feed, seen, consuming>>

\* case err := <-d.errors, the sender being the deployment informer
DErrorsFromInformer ==
    /\ d.pc = "select"
    /\ dInformer.pc = "errors"
    /\ d' = [d EXCEPT !.pc = "returned", !.result = dInformer.err]
    /\ dInformer' = [dInformer EXCEPT !.pc = "done"]
    /\ UNCHANGED <<podVars, follower, rsInformer, tracking, ctxDone, podsInformers, podTrackers, feed, seen, consuming>>

\* case err := <-d.errors, the sender being a pods informer
DErrorsFromPodsInformer(i) ==
    /\ d.pc = "select"
    /\ podsInformers[i].pc = "errors"
    /\ d' = [d EXCEPT !.pc = "returned", !.result = podsInformers[i].err]
    /\ podsInformers' = [podsInformers EXCEPT ![i].pc = "done"]
    /\ UNCHANGED <<podVars, follower, rsInformer, tracking, ctxDone, dInformer, podTrackers, feed, seen, consuming>>

\* case err := <-d.errors, the sender being the adapter of a Pod Tracker
DErrorsFromAdapter(i) ==
    /\ d.pc = "select"
    /\ podTrackers[i].adapter = "errors"
    /\ d' = [d EXCEPT !.pc = "returned", !.result = podTrackers[i].err]
    /\ podTrackers' = [podTrackers EXCEPT ![i].adapter = "returned"]
    /\ UNCHANGED <<podVars, follower, rsInformer, tracking, ctxDone, dInformer, podsInformers, feed, seen, consuming>>

(***************************************************************************)
(* The replica sets informer of the Deployment tracker and the replicaSet  *)
(* cases of Track.                                                         *)
(***************************************************************************)
\* a map with the entry of the name set, or removed
MapSet(map, name, value) ==
    [k \in DOMAIN map \cup {name} |-> IF k = name THEN value ELSE map[k]]

MapDelete(map, name) == [k \in DOMAIN map \ {name} |-> map[k]]

\* the channel of Track that the informer sends an event of the type on
ReplicaSetChan(t, type) ==
    IF type = "Added" THEN t.replicaSetAdded
    ELSE IF type = "Modified" THEN t.replicaSetModified
    ELSE t.replicaSetDeleted

ReplicaSetChanCap(type) ==
    IF type = "Added" THEN replicaSetAddedCap
    ELSE IF type = "Modified" THEN replicaSetModifiedCap
    ELSE replicaSetDeletedCap

\* the informer's callback: a send of the snapshot on the channel of the
\* event's type
ReplicaSetsInformerEvent(type, name, template) ==
    /\ tracking = "deployment"
    /\ d.replicaSetsInformers >= 1
    /\ rsInformer.n < MaxRsEvents
    /\ type = "Added" => name \notin DOMAIN rsInformer.produced
    /\ type \in {"Modified", "Deleted"} => name \in DOMAIN rsInformer.produced
    /\ Len(ReplicaSetChan(d, type)) < ReplicaSetChanCap(type)
    /\ LET rs == [Name |-> name, template |-> template]
       IN d' = [d EXCEPT
                  !.replicaSetAdded = IF type = "Added" THEN Append(@, rs) ELSE @,
                  !.replicaSetModified = IF type = "Modified" THEN Append(@, rs) ELSE @,
                  !.replicaSetDeleted = IF type = "Deleted" THEN Append(@, rs) ELSE @]
    /\ rsInformer' = [n |-> rsInformer.n + 1,
                      produced |-> IF type = "Deleted"
                                   THEN MapDelete(rsInformer.produced, name)
                                   ELSE MapSet(rsInformer.produced, name, template)]
    /\ UNCHANGED <<podVars, follower, tracking, ctxDone, dInformer, podsInformers, podTrackers, feed, seen, consuming>>

\* case rs := <-d.replicaSetAdded
DReplicaSetAdded ==
    /\ tracking = "deployment"
    /\ d.pc = "select"
    /\ d.replicaSetAdded # <<>>
    /\ Len(d.AddedReplicaSet) < AddedReplicaSetCap
    /\ LET rs == Head(d.replicaSetAdded)
           known == MapSet(d.knownReplicaSets, rs.Name, rs.template)
           rsNew == IsReplicaSetNew(d.lastObject, known, rs.Name)
       IN /\ d' = [d EXCEPT !.replicaSetAdded = Tail(@),
                            !.knownReplicaSets = known,
                            !.AddedReplicaSet = Append(@, [Name |-> rs.Name, IsNew |-> rsNew])]
          /\ feed' = Append(feed, Ev("AddedReplicaSet", "", BoolStr(rsNew)))
    /\ UNCHANGED <<podVars, follower, rsInformer, tracking, ctxDone, dInformer, podsInformers, podTrackers, seen, consuming>>

\* case rs := <-d.replicaSetModified
DReplicaSetModified ==
    /\ tracking = "deployment"
    /\ d.pc = "select"
    /\ d.replicaSetModified # <<>>
    /\ LET rs == Head(d.replicaSetModified)
       IN d' = [d EXCEPT !.replicaSetModified = Tail(@),
                         !.knownReplicaSets = MapSet(@, rs.Name, rs.template)]
    /\ UNCHANGED <<podVars, follower, rsInformer, tracking, ctxDone, dInformer, podsInformers, podTrackers, feed, seen, consuming>>

\* case rs := <-d.replicaSetDeleted
DReplicaSetDeleted ==
    /\ tracking = "deployment"
    /\ d.pc = "select"
    /\ d.replicaSetDeleted # <<>>
    /\ d' = [d EXCEPT !.replicaSetDeleted = Tail(@),
                      !.knownReplicaSets = MapDelete(@, Head(d.replicaSetDeleted).Name)]
    /\ UNCHANGED <<podVars, follower, rsInformer, tracking, ctxDone, dInformer, podsInformers, podTrackers, feed, seen, consuming>>

(***************************************************************************)
(* daemonset Tracker.Track: the cases that differ from the Deployment's.   *)
(***************************************************************************)
\* NewDaemonSetStatus(d.lastObject.Status, d.podStatuses)
NewDaemonSetStatus(t) ==
    [object |-> t.lastObject, IsReady |-> FALSE, IsFailed |-> FALSE, FailedReason |-> ""]

\* handleDaemonSetStatus(object): the ready result
HandleDaemonSetStatus(object) == DaemonSetRolloutStatus(object)

\* case object := <-d.resourceAdded, up to d.Added <- ready
DaemonSetResourceAdded(t) ==
    LET set == [t EXCEPT !.resourceAdded = Tail(@),
                         !.lastObject = Head(t.resourceAdded)]
        reported == [set EXCEPT !.StatusReport = Append(@, NewDaemonSetStatus(set)),
                                !.ready = HandleDaemonSetStatus(Head(t.resourceAdded))]
    IN IF reported.State = ""
       THEN [reported EXCEPT !.State = "Started", !.pc = "Added"]
       ELSE RunDaemonSetInformers(reported)

DsResourceAdded ==
    /\ tracking = "daemonset"
    /\ d.pc = "select"
    /\ d.resourceAdded # <<>>
    /\ Len(d.StatusReport) < StatusReportCap
    /\ d' = DaemonSetResourceAdded(d)
    /\ podsInformers' = IF d'.pc = "select"
                        THEN RunPodsInformer(d', podsInformers)
                        ELSE podsInformers
    /\ feed' = Append(feed, Ev("StatusReport", "", StatusInfo(Last(d'.StatusReport))))
    /\ UNCHANGED <<podVars, follower, rsInformer, tracking, ctxDone, dInformer, podTrackers, seen, consuming>>

\* case object := <-d.resourceModified, up to d.Ready <- true
DaemonSetResourceModified(t) ==
    LET ready == HandleDaemonSetStatus(Head(t.resourceModified))
        set == [t EXCEPT !.resourceModified = Tail(@),
                         !.lastObject = Head(t.resourceModified),
                         !.ready = ready]
    IN [set EXCEPT !.StatusReport = Append(@, NewDaemonSetStatus(set)),
                   !.pc = IF ready THEN "Ready" ELSE "select"]

DsResourceModified ==
    /\ tracking = "daemonset"
    /\ d.pc = "select"
    /\ d.resourceModified # <<>>
    /\ Len(d.StatusReport) < StatusReportCap
    /\ d' = DaemonSetResourceModified(d)
    /\ feed' = Append(feed, Ev("StatusReport", "", StatusInfo(Last(d'.StatusReport))))
    /\ UNCHANGED <<podVars, follower, rsInformer, tracking, ctxDone, dInformer, podsInformers, podTrackers, seen, consuming>>

\* case pod := <-d.podAdded: d.AddedPod <- rsPod; d.runPodTracker(pod.Name)
DaemonSetPodAdded(t) ==
    [t EXCEPT !.podAdded = Tail(@),
              !.AddedPod = Append(@,
                  [Name |-> Head(t.podAdded),
                   ReplicaSet |-> [Name |-> "", IsNew |-> FALSE]]),
              !.TrackedPods = Append(@, Head(t.podAdded))]

DsPodAdded ==
    /\ tracking = "daemonset"
    /\ d.pc = "select"
    /\ d.podAdded # <<>>
    /\ Len(d.AddedPod) < AddedPodCap
    /\ d' = DaemonSetPodAdded(d)
    /\ podTrackers' = Append(podTrackers, PodNewTracker(Head(d.podAdded), ""))
    /\ feed' = Append(feed, Ev("AddedPod", Head(d.podAdded), ""))
    /\ UNCHANGED <<podVars, follower, rsInformer, tracking, ctxDone, dInformer, podsInformers, seen, consuming>>

(***************************************************************************)
(* The pods informer started by runPodsInformer: it delivers one Added     *)
(* event per pod of the controller on d.podAdded, errors on d.errors.      *)
(***************************************************************************)
PodsInformerEvent(i, podName) ==
    /\ podsInformers[i].pc = "watch"
    /\ podName \in podsInformers[i].todo
    /\ Len(d.podAdded) < podAddedCap
    /\ d' = [d EXCEPT !.podAdded = Append(@, podName)]
    /\ podsInformers' = [podsInformers EXCEPT ![i].todo = @ \ {podName}]
    /\ UNCHANGED <<podVars, follower, rsInformer, tracking, ctxDone, dInformer, podTrackers, feed, seen, consuming>>

PodsInformerCancelled(i) ==
    /\ podsInformers[i].pc = "watch"
    /\ ctxDone
    /\ podsInformers' = [podsInformers EXCEPT ![i].pc = "errors",
                                              ![i].err = "ErrWaitTimeout"]
    /\ UNCHANGED <<podVars, follower, rsInformer, tracking, ctxDone, d, dInformer, podTrackers, feed, seen, consuming>>

(***************************************************************************)
(* A Pod Tracker started by runPodTracker, as its adapter sees it: the     *)
(* loop of PodTracker.Track and the goroutine that calls Start.            *)
(***************************************************************************)
\* case object := <-pod.objectAdded in state Initial: pod.Added <- struct{}{}
PodObjectAdded(i) ==
    /\ podTrackers[i].pc = "select"
    /\ podTrackers[i].State = "Initial"
    /\ podTrackers' = [podTrackers EXCEPT ![i].State = "ResourceAdded",
                                          ![i].pc = "Added"]
    /\ UNCHANGED <<podVars, follower, rsInformer, tracking, ctxDone, d, dInformer, podsInformers, feed, seen, consuming>>

\* handleContainersState: pod.ContainerError <- ContainerError{...}
PodContainerError(i) ==
    /\ podTrackers[i].pc = "select"
    /\ podTrackers[i].State = "ResourceAdded"
    /\ podTrackers[i].containerErrors < MaxContainerErrors
    /\ podTrackers' = [podTrackers EXCEPT ![i].containerErrors = @ + 1,
                                          ![i].pc = "ContainerError"]
    /\ UNCHANGED <<podVars, follower, rsInformer, tracking, ctxDone, d, dInformer, podsInformers, feed, seen, consuming>>

\* followContainerLogs: pod.ContainerLogChunk <- &ContainerLogChunk{...}
PodContainerLogChunk(i) ==
    /\ podTrackers[i].State = "ResourceAdded"
    /\ podTrackers[i].chunks < MaxChunks
    /\ Len(podTrackers[i].ContainerLogChunk) < ContainerLogChunkCap
    /\ podTrackers' = [podTrackers EXCEPT ![i].chunks = @ + 1,
                           ![i].ContainerLogChunk = Append(@, podTrackers[i].ResourceName)]
    /\ UNCHANGED <<podVars, follower, rsInformer, tracking, ctxDone, d, dInformer, podsInformers, feed, seen, consuming>>

\* handlePodState: pod.Succeeded <- struct{}{} or pod.Failed <- struct{}{}
PodCompleted(i, phase) ==
    /\ podTrackers[i].pc = "select"
    /\ podTrackers[i].State = "ResourceAdded"
    /\ podTrackers' = [podTrackers EXCEPT ![i].pc = phase]
    /\ UNCHANGED <<podVars, follower, rsInformer, tracking, ctxDone, d, dInformer, podsInformers, feed, seen, consuming>>

\* case <-pod.objectDeleted: return nil; Start's goroutine sends on doneChan
PodObjectDeleted(i) ==
    /\ podTrackers[i].pc = "select"
    /\ podTrackers' = [podTrackers EXCEPT ![i].pc = "doneChan"]
    /\ UNCHANGED <<podVars, follower, rsInformer, tracking, ctxDone, d, dInformer, podsInformers, feed, seen, consuming>>

\* case <-pod.Context.Done(): return ErrTrackTimeout; Start's goroutine sends
\* the error on errorChan
PodContextDone(i) ==
    /\ podTrackers[i].pc = "select"
    /\ ctxDone
    /\ podTrackers' = [podTrackers EXCEPT ![i].pc = "errorChan",
                                          ![i].err = "ErrTrackTimeout"]
    /\ UNCHANGED <<podVars, follower, rsInformer, tracking, ctxDone, d, dInformer, podsInformers, feed, seen, consuming>>

(***************************************************************************)
(* runPodTracker: the adapter goroutine of one Pod Tracker.                *)
(***************************************************************************)
\* case chunk := <-podTracker.ContainerLogChunk: d.replicaSetPodLogChunk <- rsChunk
AdapterContainerLogChunk(i) ==
    /\ podTrackers[i].adapter = "select"
    /\ podTrackers[i].ContainerLogChunk # <<>>
    /\ Len(d.replicaSetPodLogChunk) < replicaSetPodLogChunkCap
    /\ podTrackers' = [podTrackers EXCEPT ![i].ContainerLogChunk = Tail(@)]
    /\ d' = [d EXCEPT !.replicaSetPodLogChunk = Append(@,
                [PodName |-> podTrackers[i].ResourceName,
                 ReplicaSet |-> [Name |-> podTrackers[i].rsName, IsNew |-> FALSE]])]
    /\ UNCHANGED <<podVars, follower, rsInformer, tracking, ctxDone, dInformer, podsInformers, feed, seen, consuming>>

\* case containerError := <-podTracker.ContainerError, up to
\* d.replicaSetPodError <- podError
AdapterContainerError(i) ==
    /\ podTrackers[i].adapter = "select"
    /\ podTrackers[i].pc = "ContainerError"
    /\ podTrackers' = [podTrackers EXCEPT ![i].pc = "select",
                                          ![i].adapter = "replicaSetPodError"]
    /\ UNCHANGED <<podVars, follower, rsInformer, tracking, ctxDone, d, dInformer, podsInformers, feed, seen, consuming>>

\* d.replicaSetPodError <- podError
AdapterReplicaSetPodError(i) ==
    /\ podTrackers[i].adapter = "replicaSetPodError"
    /\ Len(d.replicaSetPodError) < replicaSetPodErrorCap
    /\ d' = [d EXCEPT !.replicaSetPodError = Append(@,
                [PodName |-> podTrackers[i].ResourceName,
                 ReplicaSet |-> [Name |-> podTrackers[i].rsName, IsNew |-> FALSE]])]
    /\ podTrackers' = [podTrackers EXCEPT ![i].adapter = "select"]
    /\ UNCHANGED <<podVars, follower, rsInformer, tracking, ctxDone, dInformer, podsInformers, feed, seen, consuming>>

\* an adapter whose select has no case <-podTracker.Added
AdapterDrainWithoutAdded(i) ==
    /\ podTrackers[i].adapter = "select"
    /\ podTrackers[i].pc \in {"Succeeded", "Failed"}
    /\ podTrackers' = [podTrackers EXCEPT ![i].pc = "doneChan"]
    /\ UNCHANGED <<podVars, follower, rsInformer, tracking, ctxDone, d, dInformer, podsInformers, feed, seen, consuming>>

\* case <-podTracker.Added, case <-podTracker.Succeeded, case <-podTracker.Failed:
\* after Succeeded or Failed Track returns nil and Start's goroutine sends on doneChan
AdapterDrain(i) ==
    /\ podTrackers[i].adapter = "select"
    /\ podTrackers[i].pc \in {"Added", "Succeeded", "Failed"}
    /\ podTrackers' = [podTrackers EXCEPT
                          ![i].pc = IF @ = "Added" THEN "select" ELSE "doneChan"]
    /\ UNCHANGED <<podVars, follower, rsInformer, tracking, ctxDone, d, dInformer, podsInformers, feed, seen, consuming>>

\* case err := <-errorChan, up to d.errors <- err
AdapterErrorChan(i) ==
    /\ podTrackers[i].adapter = "select"
    /\ podTrackers[i].pc = "errorChan"
    /\ podTrackers' = [podTrackers EXCEPT ![i].pc = "exited", ![i].adapter = "errors"]
    /\ UNCHANGED <<podVars, follower, rsInformer, tracking, ctxDone, d, dInformer, podsInformers, feed, seen, consuming>>

\* case <-doneChan, up to d.podDone <- podTracker.ResourceName
AdapterDoneChan(i) ==
    /\ podTrackers[i].adapter = "select"
    /\ podTrackers[i].pc = "doneChan"
    /\ podTrackers' = [podTrackers EXCEPT ![i].pc = "exited", ![i].adapter = "podDone"]
    /\ UNCHANGED <<podVars, follower, rsInformer, tracking, ctxDone, d, dInformer, podsInformers, feed, seen, consuming>>

\* d.podDone <- podTracker.ResourceName; return
AdapterPodDone(i) ==
    /\ podTrackers[i].adapter = "podDone"
    /\ Len(d.podDone) < podDoneCap
    /\ d' = [d EXCEPT !.podDone = Append(@, podTrackers[i].ResourceName)]
    /\ podTrackers' = [podTrackers EXCEPT ![i].adapter = "returned"]
    /\ UNCHANGED <<podVars, follower, rsInformer, tracking, ctxDone, dInformer, podsInformers, feed, seen, consuming>>

(***************************************************************************)
(* The consumer of the feed: a loop that selects over the feed channels of *)
(* the tracker and receives from whichever is ready, until it stops.       *)
(***************************************************************************)
\* <-d.Added, the unbuffered channel Track is sending on
ConsumeAdded ==
    /\ consuming
    /\ d.pc = "Added"
    /\ d' = [d EXCEPT !.pc = "informers"]
    /\ feed' = Append(feed, Ev("Added", "", BoolStr(d.ready)))
    /\ seen' = Append(seen, Ev("Added", "", BoolStr(d.ready)))
    /\ UNCHANGED <<podVars, follower, rsInformer, tracking, ctxDone, dInformer, podsInformers, podTrackers, consuming>>

ConsumeReady ==
    /\ consuming
    /\ d.Ready # <<>>
    /\ d' = [d EXCEPT !.Ready = Tail(@)]
    /\ seen' = Append(seen, Ev("Ready", "", ""))
    /\ UNCHANGED <<podVars, follower, rsInformer, tracking, ctxDone, dInformer, podsInformers, podTrackers, feed, consuming>>

ConsumeFailed ==
    /\ consuming
    /\ d.Failed # <<>>
    /\ d' = [d EXCEPT !.Failed = Tail(@)]
    /\ seen' = Append(seen, Ev("Failed", "", Head(d.Failed)))
    /\ UNCHANGED <<podVars, follower, rsInformer, tracking, ctxDone, dInformer, podsInformers, podTrackers, feed, consuming>>

ConsumeStatusReport ==
    /\ consuming
    /\ d.StatusReport # <<>>
    /\ d' = [d EXCEPT !.StatusReport = Tail(@)]
    /\ seen' = Append(seen, Ev("StatusReport", "", StatusInfo(Head(d.StatusReport))))
    /\ UNCHANGED <<podVars, follower, rsInformer, tracking, ctxDone, dInformer, podsInformers, podTrackers, feed, consuming>>

ConsumeAddedPod ==
    /\ consuming
    /\ d.AddedPod # <<>>
    /\ d' = [d EXCEPT !.AddedPod = Tail(@)]
    /\ seen' = Append(seen, Ev("AddedPod", Head(d.AddedPod).Name, ""))
    /\ UNCHANGED <<podVars, follower, rsInformer, tracking, ctxDone, dInformer, podsInformers, podTrackers, feed, consuming>>

ConsumeAddedReplicaSet ==
    /\ consuming
    /\ d.AddedReplicaSet # <<>>
    /\ d' = [d EXCEPT !.AddedReplicaSet = Tail(@)]
    /\ seen' = Append(seen, Ev("AddedReplicaSet", "", BoolStr(Head(d.AddedReplicaSet).IsNew)))
    /\ UNCHANGED <<podVars, follower, rsInformer, tracking, ctxDone, dInformer, podsInformers, podTrackers, feed, consuming>>

ConsumePodLogChunk ==
    /\ consuming
    /\ d.PodLogChunk # <<>>
    /\ d' = [d EXCEPT !.PodLogChunk = Tail(@)]
    /\ seen' = Append(seen, Ev("PodLogChunk", Head(d.PodLogChunk).PodName, ""))
    /\ UNCHANGED <<podVars, follower, rsInformer, tracking, ctxDone, dInformer, podsInformers, podTrackers, feed, consuming>>

\* <-d.PodError, the unbuffered channel Track is sending on
ConsumePodError ==
    /\ consuming
    /\ d.pc = "PodError"
    /\ d' = [d EXCEPT !.pc = "select"]
    /\ feed' = Append(feed, Ev("PodError", d.rsPodError.PodName, ""))
    /\ seen' = Append(seen, Ev("PodError", d.rsPodError.PodName, ""))
    /\ UNCHANGED <<podVars, follower, rsInformer, tracking, ctxDone, dInformer, podsInformers, podTrackers, consuming>>

ConsumerStop ==
    /\ consuming
    /\ consuming' = FALSE
    /\ UNCHANGED <<podVars, follower, rsInformer, tracking, ctxDone, d, dInformer, podsInformers, podTrackers, feed, seen>>

(***************************************************************************)
(* PodTracker (pkg/tracker/pod.go).  Track runs in a goroutine of TrackPod *)
(* that passes its result on errorChan or doneChan.  The sends on Added,   *)
(* Succeeded, Failed and ContainerError are unbuffered: Track waits at the *)
(* pc of that name until TrackPod receives.                                *)
(***************************************************************************)
\* the goroutine of TrackPod after pod.Track returned err
Return(p, err) ==
    [p EXCEPT !.pc = IF err # "nil" THEN "errorChan" ELSE "doneChan",
              !.err = err]

\* a variant of handlePodState that does not look at TrackedContainers
PodPhaseOnly(p) ==
    IF p.lastObject.Phase \in {"Succeeded", "Failed"}
    THEN [p EXCEPT !.pc = p.lastObject.Phase]
    ELSE [p EXCEPT !.pc = "select"]

\* handlePodState after handleContainersState
PodPhase(p) ==
    IF Len(p.TrackedContainers) = 0 /\ p.lastObject.Phase = "Succeeded"
    THEN [p EXCEPT !.pc = "Succeeded"]
    ELSE IF Len(p.TrackedContainers) = 0 /\ p.lastObject.Phase = "Failed"
    THEN [p EXCEPT !.pc = "Failed"]
    ELSE [p EXCEPT !.pc = "select"]

ContainerTrackerState(state) ==
    IF state \in {"Waiting", "BackOff"} THEN "ContainerWaiting"
    ELSE IF state = "Running" THEN "ContainerRunning"
    ELSE "ContainerTerminated"

\* handlePodState(pod.lastObject): the loop of handleContainersState over the
\* container statuses names, up to its next send on ContainerError
RECURSIVE HandleContainersState(_, _)
HandleContainersState(p, names) ==
    IF names = <<>> THEN PodPhase(p)
    ELSE LET set == [p EXCEPT !.ContainerTrackerStates =
                        [c \in DOMAIN @ \cup {Head(names)} |->
                            IF c = Head(names)
                            THEN ContainerTrackerState(p.lastObject.Container)
                            ELSE @[c]]]
         IN IF p.lastObject.Container = "BackOff"
            THEN [set EXCEPT !.pc = "ContainerError", !.pending = names]
            ELSE HandleContainersState(set, Tail(names))

HandlePodState(p) == HandleContainersState(p, AllContainersNames)

\* runContainersTrackers, but for its goroutines
RunContainersTrackers(p) ==
    [p EXCEPT !.ContainerTrackerStates = [c \in ContainerNames |-> "Initial"],
              !.TrackedContainers = @ \o AllContainersNames]

\* pod.runInformer() at the start of Track
PodRunInformer ==
    /\ tracking = "pod"
    /\ pod.pc = "runInformer"
    /\ pod' = [pod EXCEPT !.pc = "select"]
    /\ podInformer' = [podInformer EXCEPT !.pc = "watch", !.event = "", !.object = NilPod]
    /\ UNCHANGED <<follower, tracking, ctxDone, ctlVars, containers, trackPod, calls>>

\* the callback of UntilWithSync gets an event; an Error event is dropped
PodInformerEvent(type, object) ==
    /\ podInformer.pc = "watch"
    /\ podInformer.n < MaxPodEvents
    /\ type = "Added" => ~podInformer.exists
    /\ type \in {"Modified", "Deleted"} => podInformer.exists
    /\ podInformer' =
          [podInformer EXCEPT
              !.n = @ + 1,
              !.pc = IF type = "Error" THEN "watch" ELSE "send",
              !.event = IF type = "Error" THEN @ ELSE type,
              !.object = IF type = "Error" THEN @ ELSE object,
              !.exists = IF type = "Added" THEN TRUE
                         ELSE IF type = "Deleted" THEN FALSE ELSE @,
              !.added = IF type = "Added" THEN @ + 1 ELSE @]
    /\ UNCHANGED <<follower, tracking, ctxDone, ctlVars, pod, containers, trackPod, calls>>

\* the callback of UntilWithSync gets a watch.Added event for a pod it has
\* already reported
PodInformerAddedAgain(object) ==
    /\ podInformer.pc = "watch"
    /\ podInformer.n < MaxPodEvents
    /\ podInformer.exists
    /\ podInformer' = [podInformer EXCEPT !.n = @ + 1, !.pc = "send", !.added = @ + 1,
                                          !.event = "Added", !.object = object]
    /\ UNCHANGED <<follower, tracking, ctxDone, ctlVars, pod, containers, trackPod, calls>>

\* UntilWithSync returns when the context is done: pod.errors <- err
PodInformerCancelled ==
    /\ podInformer.pc = "watch"
    /\ ctxDone
    /\ podInformer' = [podInformer EXCEPT !.pc = "errors"]
    /\ UNCHANGED <<follower, tracking, ctxDone, ctlVars, pod, containers, trackPod, calls>>

\* the objectAdded case without its switch on pod.State
TrackObjectAddedInAnyState ==
    /\ pod.pc = "select"
    /\ podInformer.pc = "send"
    /\ podInformer.event = "Added"
    /\ podInformer' = [podInformer EXCEPT !.pc = "watch", !.event = "", !.object = NilPod]
    /\ pod' = [pod EXCEPT !.lastObject = podInformer.object,
                          !.State = "ResourceAdded", !.pc = "Added"]
    /\ UNCHANGED <<follower, tracking, ctxDone, ctlVars, containers, trackPod, calls>>

\* case object := <-pod.objectAdded, up to pod.Added <- struct{}{}
TrackObjectAdded ==
    /\ pod.pc = "select"
    /\ podInformer.pc = "send"
    /\ podInformer.event = "Added"
    /\ podInformer' = [podInformer EXCEPT !.pc = "watch", !.event = "", !.object = NilPod]
    /\ LET received == [pod EXCEPT !.lastObject = podInformer.object]
       IN pod' = IF pod.State = "Initial"
                 THEN [received EXCEPT !.State = "ResourceAdded", !.pc = "Added"]
                 ELSE HandlePodState(received)
    /\ UNCHANGED <<follower, tracking, ctxDone, ctlVars, containers, trackPod, calls>>

\* case object := <-pod.objectModified
TrackObjectModified ==
    /\ pod.pc = "select"
    /\ podInformer.pc = "send"
    /\ podInformer.event = "Modified"
    /\ podInformer' = [podInformer EXCEPT !.pc = "watch", !.event = "", !.object = NilPod]
    /\ pod' = HandlePodState([pod EXCEPT !.lastObject = podInformer.object])
    /\ UNCHANGED <<follower, tracking, ctxDone, ctlVars, containers, trackPod, calls>>

\* case <-pod.objectDeleted
TrackObjectDeleted ==
    /\ pod.pc = "select"
    /\ podInformer.pc = "send"
    /\ podInformer.event = "Deleted"
    /\ podInformer' = [podInformer EXCEPT !.pc = "watch", !.event = "", !.object = NilPod]
    /\ pod' = Return(pod, "nil")
    /\ UNCHANGED <<follower, tracking, ctxDone, ctlVars, containers, trackPod, calls>>

\* case object := <-pod.objectModified: pod.lastObject = object
TrackObjectModifiedReceive ==
    /\ pod.pc = "select"
    /\ podInformer.pc = "send"
    /\ podInformer.event = "Modified"
    /\ podInformer' = [podInformer EXCEPT !.pc = "watch", !.event = "", !.object = NilPod]
    /\ pod' = [pod EXCEPT !.lastObject = podInformer.object, !.pc = "handlePodState"]
    /\ UNCHANGED <<follower, tracking, ctxDone, ctlVars, containers, trackPod, calls>>

\* pod.handlePodState(object) of the objectModified case: the writes of
\* handleContainersState to pod.ContainerTrackerStates
TrackHandlePodState ==
    /\ pod.pc = "handlePodState"
    /\ pod' = HandlePodState(pod)
    /\ UNCHANGED <<follower, tracking, ctxDone, ctlVars, podInformer, containers, trackPod, calls>>

Without(seq, x) == SelectSeq(seq, LAMBDA name : name # x)

\* case containerName := <-pod.containerDone
TrackContainerDone ==
    /\ pod.pc = "select"
    /\ pod.containerDone # <<>>
    /\ pod' = HandlePodState(
                  [pod EXCEPT !.containerDone = Tail(@),
                              !.TrackedContainers = Without(@, Head(pod.containerDone))])
    /\ UNCHANGED <<follower, tracking, ctxDone, ctlVars, podInformer, containers, trackPod, calls>>

\* case <-pod.Context.Done()
TrackContextDone ==
    /\ pod.pc = "select"
    /\ ctxDone
    /\ pod' = Return(pod, "ErrTrackTimeout")
    /\ UNCHANGED <<follower, tracking, ctxDone, ctlVars, podInformer, containers, trackPod, calls>>

\* case err := <-pod.errors, sent by the informer goroutine
TrackErrorsFromInformer ==
    /\ pod.pc = "select"
    /\ podInformer.pc = "errors"
    /\ podInformer' = [podInformer EXCEPT !.pc = "exited"]
    /\ pod' = Return(pod, "ErrWaitTimeout")
    /\ UNCHANGED <<follower, tracking, ctxDone, ctlVars, containers, trackPod, calls>>

\* case err := <-pod.errors, sent by a container goroutine, which goes on to
\* pod.containerDone <- containerName
TrackErrorsFromContainer(c) ==
    /\ pod.pc = "select"
    /\ containers[c].pc = "errors"
    /\ containers' = [containers EXCEPT ![c].pc = "exited"]
    /\ pod' = Return([pod EXCEPT !.containerDone = Append(@, c)], containers[c].err)
    /\ UNCHANGED <<follower, tracking, ctxDone, ctlVars, podInformer, trackPod, calls>>

(***************************************************************************)
(* The goroutine of a container: trackContainer and followContainerLogs.   *)
(***************************************************************************)
\* case <-ticker.C with the container running or terminated
ContainerTick(c) ==
    /\ containers[c].pc = "tick"
    /\ pod.ContainerTrackerStates[c] \in {"ContainerRunning", "ContainerTerminated"}
    /\ containers' = [containers EXCEPT ![c].pc = "follow", ![c].followed = @ + 1]
    /\ UNCHANGED <<follower, tracking, ctxDone, ctlVars, pod, podInformer, trackPod, calls>>

\* case <-pod.Context.Done() of trackContainer
ContainerContextDone(c) ==
    /\ containers[c].pc = "tick"
    /\ ctxDone
    /\ containers' = [containers EXCEPT ![c].pc = "errors", ![c].err = "ErrTrackTimeout"]
    /\ UNCHANGED <<follower, tracking, ctxDone, ctlVars, pod, podInformer, trackPod, calls>>

\* case <-ticker.C: the read of pod.ContainerTrackerStates[containerName]
\* begins; nothing orders it with the writes of the loop of Track
ContainerTickRead(c) ==
    /\ containers[c].pc = "tick"
    /\ containers' = [containers EXCEPT ![c].pc = "read"]
    /\ UNCHANGED <<follower, tracking, ctxDone, ctlVars, pod, podInformer, trackPod, calls>>

\* the switch on the state that was read. A read of the map that overlaps a
\* write of handleContainersState gives the old entry or the new one, or the
\* Go runtime stops the process (concurrent map read and map write).
ContainerTickSwitch(c) ==
    /\ containers[c].pc = "read"
    /\ LET racing == pod.pc = "handlePodState"
           current == pod.ContainerTrackerStates[c]
           written == ContainerTrackerState(pod.lastObject.Container)
       IN \/ /\ \E state \in (IF racing THEN {current, written} ELSE {current}) :
                  containers' =
                      IF state \in {"ContainerRunning", "ContainerTerminated"}
                      THEN [containers EXCEPT ![c].pc = "follow", ![c].followed = @ + 1]
                      ELSE [containers EXCEPT ![c].pc = "tick"]
             /\ UNCHANGED <<pod, podInformer>>
          \/ /\ racing
             /\ containers' = [containers EXCEPT ![c].pc = "fatal"]
             /\ pod' = [pod EXCEPT !.pc = "fatal"]
             /\ podInformer' = [podInformer EXCEPT !.pc = "exited"]
    /\ UNCHANGED <<follower, tracking, ctxDone, ctlVars, trackPod, calls>>

\* readCloser.Read returned bytes: pod.ContainerLogChunk <- chunk, then the
\* select on pod.Context.Done() with its default
ContainerRead(c) ==
    /\ containers[c].pc = "follow"
    /\ containers[c].chunks < MaxChunks
    /\ Len(pod.ContainerLogChunk) < ContainerLogChunkCap
    /\ containers' = [containers EXCEPT
                         ![c].pc = IF ctxDone THEN "errors" ELSE "follow",
                         ![c].err = IF ctxDone THEN "ErrTrackTimeout" ELSE @,
                         ![c].chunks = @ + 1]
    /\ pod' = [pod EXCEPT !.ContainerLogChunk = Append(@, [ContainerName |-> c])]
    /\ UNCHANGED <<follower, tracking, ctxDone, ctlVars, podInformer, trackPod, calls>>

\* readCloser.Read returned io.EOF: pod.containerDone <- containerName
ContainerEOF(c) ==
    /\ containers[c].pc = "follow"
    /\ containers' = [containers EXCEPT ![c].pc = "exited"]
    /\ pod' = [pod EXCEPT !.containerDone = Append(@, c)]
    /\ UNCHANGED <<follower, tracking, ctxDone, ctlVars, podInformer, trackPod, calls>>

(***************************************************************************)
(* followContainerLogs on its own, with the bytes of the stream: a Read    *)
(* returns the next n bytes, the loop over chunkBuf[0..n) cuts them into   *)
(* lines with lineBuf kept between reads, and the chunk of the read is     *)
(* sent on ContainerLogChunk.                                              *)
(***************************************************************************)
\* strings.SplitN(line, " ", 2), when it gives two parts
RECURSIVE FirstSpace(_, _)
FirstSpace(line, i) ==
    IF i > Len(line) THEN 0
    ELSE IF line[i] = SP THEN i
    ELSE FirstSpace(line, i + 1)

LogLine(line) ==
    [Timestamp |-> SubSeq(line, 1, FirstSpace(line, 1) - 1),
     Data |-> SubSeq(line, FirstSpace(line, 1) + 1, Len(line))]

\* for i := 0; i < n; i++: the bytes left of chunkBuf[0..n), lineBuf and
\* chunkLines so far
RECURSIVE ScanBytes(_, _, _)
ScanBytes(bytes, lineBuf, chunkLines) ==
    IF bytes = <<>> THEN [lineBuf |-> lineBuf, chunkLines |-> chunkLines]
    ELSE IF Head(bytes) = NL
    THEN ScanBytes(Tail(bytes), <<>>,
                   IF FirstSpace(lineBuf, 1) # 0
                   THEN Append(chunkLines, LogLine(lineBuf))
                   ELSE chunkLines)
    ELSE ScanBytes(Tail(bytes), Append(lineBuf, Head(bytes)), chunkLines)

\* a variant of a Read's handling whose lineBuf starts empty at every Read
ReadWithNewLineBuf(f, n) ==
    LET scanned == ScanBytes(SubSeq(f.stream, 1, n), <<>>, <<>>)
    IN [f EXCEPT !.stream = SubSeq(@, n + 1, Len(@)),
                 !.lineBuf = scanned.lineBuf,
                 !.chunks = Append(@, [LogLines |-> scanned.chunkLines])]

\* n, err := readCloser.Read(chunkBuf) with n > 0, and the send of the chunk
Read(f, n) ==
    LET scanned == ScanBytes(SubSeq(f.stream, 1, n), f.lineBuf, <<>>)
    IN [f EXCEPT !.stream = SubSeq(@, n + 1, Len(@)),
                 !.lineBuf = scanned.lineBuf,
                 !.chunks = Append(@, [LogLines |-> scanned.chunkLines])]

FollowerRead(n) ==
    /\ tracking = "logs"
    /\ follower.pc = "read"
    /\ n \in 1..Len(follower.stream)
    /\ follower' = Read(follower, n)
    /\ UNCHANGED <<tracking, ctxDone, ctlVars, podVars>>

\* err == io.EOF: break
FollowerEOF ==
    /\ tracking = "logs"
    /\ follower.pc = "read"
    /\ follower.stream = <<>>
    /\ follower' = [follower EXCEPT !.pc = "returned"]
    /\ UNCHANGED <<tracking, ctxDone, ctlVars, podVars>>

(***************************************************************************)
(* TrackPod: the select loop over the channels of the PodTracker, which    *)
(* calls the feed; err is what the callback returns.  A return runs the    *)
(* deferred cancel().                                                      *)
(***************************************************************************)
Going == [returns |-> FALSE, result |-> "nil"]

Returning(err) == [returns |-> TRUE, result |-> err]

\* a variant of the check of a callback's result that ignores the result
CallbackResultIgnored(err) == Going

\* if err == StopTrack { return nil }; if err != nil { return err }
StopTrackThenErr(err) ==
    IF err = "StopTrack" THEN Returning("nil")
    ELSE IF err # "nil" THEN Returning(err)
    ELSE Going

\* if err != nil { return err }; if err == StopTrack { return nil }
ErrThenStopTrack(err) ==
    IF err # "nil" THEN Returning(err)
    ELSE IF err = "StopTrack" THEN Returning("nil")
    ELSE Going

\* the callback is called and TrackPod returns or goes on
Called(callback, err, outcome) ==
    /\ trackPod.pc = "select"
    /\ calls' = Append(calls, [callback |-> callback, err |-> err])
    /\ trackPod' = IF outcome.returns
                   THEN [pc |-> "returned", result |-> outcome.result]
                   ELSE trackPod
    /\ ctxDone' = (ctxDone \/ outcome.returns)

\* case chunk := <-pod.ContainerLogChunk
TrackPodContainerLogChunk(err) ==
    /\ pod.ContainerLogChunk # <<>>
    /\ Called("ContainerLogChunk", err, StopTrackThenErr(err))
    /\ pod' = [pod EXCEPT !.ContainerLogChunk = Tail(@)]
    /\ UNCHANGED <<follower, tracking, ctlVars, podInformer, containers>>

\* case containerError := <-pod.ContainerError
TrackPodContainerError(err) ==
    /\ pod.pc = "ContainerError"
    /\ Called("ContainerError", err, ErrThenStopTrack(err))
    /\ pod' = HandleContainersState([pod EXCEPT !.pending = <<>>], Tail(pod.pending))
    /\ UNCHANGED <<follower, tracking, ctlVars, podInformer, containers>>

\* case <-pod.Added; Track goes on with runContainersTrackers and
\* handlePodState
TrackPodAdded(err) ==
    /\ pod.pc = "Added"
    /\ Called("Added", err, StopTrackThenErr(err))
    /\ pod' = HandlePodState(RunContainersTrackers(pod))
    /\ containers' = [c \in ContainerNames |->
                        [containers[c] EXCEPT !.pc = "tick", !.started = @ + 1]]
    /\ UNCHANGED <<follower, tracking, ctlVars, podInformer>>

\* case <-pod.Succeeded; Track returns nil
TrackPodSucceeded(err) ==
    /\ pod.pc = "Succeeded"
    /\ Called("Succeeded", err, ErrThenStopTrack(err))
    /\ pod' = Return(pod, "nil")
    /\ UNCHANGED <<follower, tracking, ctlVars, podInformer, containers>>

\* case <-pod.Failed; Track returns nil
TrackPodFailed(err) ==
    /\ pod.pc = "Failed"
    /\ Called("Failed", err, ErrThenStopTrack(err))
    /\ pod' = Return(pod, "nil")
    /\ UNCHANGED <<follower, tracking, ctlVars, podInformer, containers>>

\* case err := <-errorChan
TrackPodErrorChan ==
    /\ trackPod.pc = "select"
    /\ pod.pc = "errorChan"
    /\ pod' = [pod EXCEPT !.pc = "exited"]
    /\ trackPod' = [pc |-> "returned", result |-> pod.err]
    /\ ctxDone' = TRUE
    /\ UNCHANGED <<follower, tracking, ctlVars, podInformer, containers, calls>>

\* case <-doneChan
TrackPodDoneChan ==
    /\ trackPod.pc = "select"
    /\ pod.pc = "doneChan"
    /\ pod' = [pod EXCEPT !.pc = "exited"]
    /\ trackPod' = [pc |-> "returned", result |-> "nil"]
    /\ ctxDone' = TRUE
    /\ UNCHANGED <<follower, tracking, ctlVars, podInformer, containers, calls>>

(***************************************************************************)
(* Specifications.                                                         *)
(***************************************************************************)
\* a controller tracker with its controller informer and its consumer
NextController ==
    \/ Cancel
    \/ \E type \in {"Added", "Modified", "Deleted", "Error"} :
         \E object \in Objects \cup {Nil} : DInformerEvent(type, object)
    \/ DInformerCancelled
    \/ DResourceAdded
    \/ DAddedRunInformers
    \/ DResourceModified
    \/ DsResourceAdded
    \/ DsResourceModified
    \/ DReady
    \/ DResourceDeleted
    \/ DFailed
    \/ DContextDone
    \/ DErrorsFromInformer
    \/ ConsumeAdded
    \/ ConsumeReady
    \/ ConsumeFailed
    \/ ConsumeStatusReport
    \/ ConsumerStop

\* a controller tracker with its controller informer, its events informers
\* and its consumer; the rollout of the controller is never complete
NextFailures ==
    \/ Cancel
    \/ \E type \in {"Added", "Modified", "Deleted"} :
         DInformerEvent(type, Object(FALSE))
    \/ DInformerEvent("Error", Nil)
    \/ DInformerCancelled
    \/ EventsInformerFailure
    \/ DResourceAdded
    \/ DAddedRunInformers
    \/ DResourceModified
    \/ DsResourceAdded
    \/ DsResourceModified
    \/ DResourceDeleted
    \/ DResourceFailed
    \/ DsResourceFailed
    \/ DFailed
    \/ DContextDone
    \/ DErrorsFromInformer
    \/ ConsumeAdded
    \/ ConsumeFailed
    \/ ConsumeStatusReport
    \/ ConsumerStop

SpecFailures == Init /\ [][NextFailures]_vars

\* the pods of the controller: the pods informers, the Pod Trackers and their
\* adapters
NextPods ==
    \/ DPodAdded
    \/ DPodDone
    \/ DReplicaSetPodLogChunk
    \/ DReplicaSetPodError
    \/ \E i \in DOMAIN podsInformers : DErrorsFromPodsInformer(i)
    \/ \E i \in DOMAIN podTrackers : DErrorsFromAdapter(i)
    \/ \E i \in DOMAIN podsInformers : \E p \in PodNames : PodsInformerEvent(i, p)
    \/ \E i \in DOMAIN podsInformers : PodsInformerCancelled(i)
    \/ \E i \in DOMAIN podTrackers : PodObjectAdded(i)
    \/ \E i \in DOMAIN podTrackers : PodContainerError(i)
    \/ \E i \in DOMAIN podTrackers : PodContainerLogChunk(i)
    \/ \E i \in DOMAIN podTrackers : \E phase \in {"Succeeded", "Failed"} : PodCompleted(i, phase)
    \/ \E i \in DOMAIN podTrackers : PodObjectDeleted(i)
    \/ \E i \in DOMAIN podTrackers : PodContextDone(i)
    \/ \E i \in DOMAIN podTrackers : AdapterContainerLogChunk(i)
    \/ \E i \in DOMAIN podTrackers : AdapterContainerError(i)
    \/ \E i \in DOMAIN podTrackers : AdapterReplicaSetPodError(i)
    \/ \E i \in DOMAIN podTrackers : AdapterDrain(i)
    \/ \E i \in DOMAIN podTrackers : AdapterErrorChan(i)
    \/ \E i \in DOMAIN podTrackers : AdapterDoneChan(i)
    \/ \E i \in DOMAIN podTrackers : AdapterPodDone(i)
    \/ ConsumeAddedPod
    \/ ConsumePodLogChunk
    \/ ConsumePodError

Next == NextController \/ NextPods \/ DsPodAdded

\* TrackPod with its PodTracker
NextTrackPod ==
    \/ Cancel
    \/ PodRunInformer
    \/ \E object \in PodObjects : PodInformerEvent("Added", object)
    \/ \E object \in PodObjects : PodInformerEvent("Modified", object)
    \/ PodInformerEvent("Deleted", NilPod)
    \/ PodInformerEvent("Error", NilPod)
    \/ PodInformerCancelled
    \/ TrackObjectAdded
    \/ TrackObjectModified
    \/ TrackObjectDeleted
    \/ TrackContainerDone
    \/ TrackContextDone
    \/ TrackErrorsFromInformer
    \/ \E c \in ContainerNames : TrackErrorsFromContainer(c)
    \/ \E c \in ContainerNames : ContainerTick(c)
    \/ \E c \in ContainerNames : ContainerContextDone(c)
    \/ \E c \in ContainerNames : ContainerRead(c)
    \/ \E c \in ContainerNames : ContainerEOF(c)
    \/ \E err \in CallbackResults : TrackPodContainerLogChunk(err)
    \/ \E err \in CallbackResults : TrackPodContainerError(err)
    \/ \E err \in CallbackResults : TrackPodAdded(err)
    \/ \E err \in CallbackResults : TrackPodSucceeded(err)
    \/ \E err \in CallbackResults : TrackPodFailed(err)
    \/ TrackPodErrorChan
    \/ TrackPodDoneChan

SpecTrackPod == InitPod /\ [][NextTrackPod]_vars

\* every goroutine of TrackPod that can take a step eventually takes one
FairSpecTrackPod == SpecTrackPod /\ WF_vars(NextTrackPod)

\* TrackPod of a pod that stays Running while its container is restarted and
\* the watch reports it as added more than once; every callback returns nil
NextContainers ==
    \/ PodRunInformer
    \/ \E object \in RestartObjects : PodInformerEvent("Added", object)
    \/ \E object \in RestartObjects : PodInformerEvent("Modified", object)
    \/ \E object \in RestartObjects : PodInformerAddedAgain(object)
    \/ TrackObjectAdded
    \/ TrackObjectModified
    \/ TrackContainerDone
    \/ \E c \in ContainerNames : ContainerTick(c)
    \/ \E c \in ContainerNames : ContainerRead(c)
    \/ \E c \in ContainerNames : ContainerEOF(c)
    \/ TrackPodContainerLogChunk("nil")
    \/ TrackPodContainerError("nil")
    \/ TrackPodAdded("nil")

SpecContainers == InitPod /\ [][NextContainers]_vars

\* TrackPod of a Running pod, with the accesses of the loop of Track and of
\* the container goroutines to pod.ContainerTrackerStates as separate steps
NextAccesses ==
    \/ PodRunInformer
    \/ \E object \in RestartObjects : PodInformerEvent("Added", object)
    \/ \E object \in RestartObjects : PodInformerEvent("Modified", object)
    \/ TrackObjectAdded
    \/ TrackObjectModifiedReceive
    \/ TrackHandlePodState
    \/ TrackContainerDone
    \/ \E c \in ContainerNames : ContainerTickRead(c)
    \/ \E c \in ContainerNames : ContainerTickSwitch(c)
    \/ \E c \in ContainerNames : ContainerRead(c)
    \/ \E c \in ContainerNames : ContainerEOF(c)
    \/ TrackPodContainerLogChunk("nil")
    \/ TrackPodContainerError("nil")
    \/ TrackPodAdded("nil")

SpecAccesses == InitPod /\ [][NextAccesses]_vars

\* followContainerLogs on every log stream, cut into reads in every way
NextLogs ==
    \/ \E n \in 1..MaxStreamLen : FollowerRead(n)
    \/ FollowerEOF

SpecLogs == InitLogs /\ [][NextLogs]_vars

Spec == Init /\ [][Next]_vars

SpecController == Init /\ [][NextController]_vars

\* the Deployment tracker of a controller that is added once, with its pods
InitDeployment == Init /\ tracking = "deployment"

NextDeploymentPods ==
    \/ Cancel
    \/ \E object \in Objects : DInformerEvent("Added", object)
    \/ DInformerCancelled
    \/ DResourceAdded
    \/ DAddedRunInformers
    \/ DContextDone
    \/ DErrorsFromInformer
    \/ ConsumeAdded
    \/ ConsumeStatusReport
    \/ ConsumerStop
    \/ NextPods

SpecDeploymentPods == InitDeployment /\ [][NextDeploymentPods]_vars

\* every goroutine of the Deployment tracker, of its informers, Pod Trackers
\* and adapters, and the consumer, that can take a step eventually takes one
FairSpecDeploymentPods == SpecDeploymentPods /\ WF_vars(NextDeploymentPods)

\* a Deployment that is added once, with its replica sets informer
NextReplicaSets ==
    \/ DInformerEvent("Added", Object(FALSE))
    \/ DResourceAdded
    \/ DAddedRunInformers
    \/ \E type \in {"Added", "Modified", "Deleted"} :
         \E name \in ReplicaSetNames : \E template \in ReplicaSetTemplates :
            ReplicaSetsInformerEvent(type, name, template)
    \/ DReplicaSetAdded
    \/ DReplicaSetModified
    \/ DReplicaSetDeleted
    \/ ConsumeAdded
    \/ ConsumeStatusReport
    \/ ConsumeAddedReplicaSet

SpecReplicaSets == InitDeployment /\ [][NextReplicaSets]_vars

\* the steps of the loop of Track, of the adapters and of the consumer: each
\* is a channel operation between two of them, or the work of one of them
ChainStep ==
    \/ DResourceAdded
    \/ DAddedRunInformers
    \/ DPodAdded
    \/ DPodDone
    \/ DReplicaSetPodLogChunk
    \/ DReplicaSetPodError
    \/ \E i \in DOMAIN podTrackers : AdapterContainerLogChunk(i)
    \/ \E i \in DOMAIN podTrackers : AdapterContainerError(i)
    \/ \E i \in DOMAIN podTrackers : AdapterReplicaSetPodError(i)
    \/ \E i \in DOMAIN podTrackers : AdapterDrain(i)
    \/ \E i \in DOMAIN podTrackers : AdapterDoneChan(i)
    \/ \E i \in DOMAIN podTrackers : AdapterPodDone(i)
    \/ ConsumeAdded
    \/ ConsumeStatusReport
    \/ ConsumeAddedPod
    \/ ConsumePodLogChunk
    \/ ConsumePodError

\* what the cluster makes happen: the Deployment and its pod p1 are added,
\* and in the Pod Tracker the events of the pod and the log chunks and errors
\* of its containers
ClusterStep ==
    \/ DInformerEvent("Added", Object(FALSE))
    \/ \E i \in DOMAIN podsInformers : PodsInformerEvent(i, "p1")
    \/ \E i \in DOMAIN podTrackers : PodObjectAdded(i)
    \/ \E i \in DOMAIN podTrackers : PodContainerError(i)
    \/ \E i \in DOMAIN podTrackers : PodContainerLogChunk(i)
    \/ \E i \in DOMAIN podTrackers : \E phase \in {"Succeeded", "Failed"} : PodCompleted(i, phase)
    \/ \E i \in DOMAIN podTrackers : PodObjectDeleted(i)

\* a Deployment with its pods, while the context is not cancelled, no watch
\* fails and the consumer receives from every feed channel
NextChain == ChainStep \/ ClusterStep

SpecChain == InitDeployment /\ [][NextChain]_vars

\* a controller that is added, deleted and added again, with the pods informers
\* this starts; a Pod Tracker ends when its pod is deleted
NextPodAdded ==
    \/ \E type \in {"Added", "Deleted"} : DInformerEvent(type, Object(FALSE))
    \/ DResourceAdded
    \/ DsResourceAdded
    \/ DAddedRunInformers
    \/ DResourceDeleted
    \/ DFailed
    \/ DPodAdded
    \/ DsPodAdded
    \/ DPodDone
    \/ \E i \in DOMAIN podsInformers : \E p \in PodNames : PodsInformerEvent(i, p)
    \/ \E i \in DOMAIN podTrackers : PodObjectDeleted(i)
    \/ \E i \in DOMAIN podTrackers : AdapterDoneChan(i)
    \/ \E i \in DOMAIN podTrackers : AdapterPodDone(i)
    \/ ConsumeAdded
    \/ ConsumeFailed
    \/ ConsumeStatusReport
    \/ ConsumeAddedPod

SpecPodAdded == Init /\ [][NextPodAdded]_vars

\* the steps of Track's loop and of the consumer's loop: a goroutine that can
\* take a step is scheduled
TrackStep ==
    \/ DResourceAdded
    \/ DAddedRunInformers
    \/ DResourceModified
    \/ DsResourceAdded
    \/ DsResourceModified
    \/ DReady
    \/ DResourceDeleted
    \/ DFailed
    \/ DContextDone
    \/ DErrorsFromInformer

ConsumerStep ==
    \/ ConsumeAdded
    \/ ConsumeReady
    \/ ConsumeFailed
    \/ ConsumeStatusReport

FairSpecController ==
    SpecController /\ WF_vars(TrackStep) /\ WF_vars(ConsumerStep)

(***************************************************************************)
(* Claims.                                                                 *)
(***************************************************************************)
\* the number of events of a type in a history
Count(history, type) ==
    Cardinality({i \in DOMAIN history : history[i].type = type})

\* the Added events Track has sent or is sending
AddedSends == Count(feed, "Added") + (IF d.pc = "Added" THEN 1 ELSE 0)

\* the events of a history that are of one of the types and about the pod
About(history, types, podName) ==
    {i \in DOMAIN history : history[i].type \in types /\ history[i].pod = podName}

\* in a history, an AddedPod of the pod precedes each of its PodLogChunk and
\* PodError events
AddedPodFirst(history) ==
    \A podName \in PodNames :
        \A i \in About(history, {"PodLogChunk", "PodError"}, podName) :
            \E j \in About(history, {"AddedPod"}, podName) : j < i

\* C1: for every pod, the AddedPod event of the Deployment tracker's feed is
\* sent, and received by a consumer that reads all feed channels, before any
\* PodLogChunk or PodError of that pod.
C1_AddedPodBeforeLogsAndErrors ==
    tracking = "deployment" => (AddedPodFirst(feed) /\ AddedPodFirst(seen))

\* the Pod Trackers of a pod name that have not returned
Live(podName) ==
    {i \in DOMAIN podTrackers :
        podTrackers[i].ResourceName = podName /\ podTrackers[i].pc # "exited"}

InSeq(x, seq) == \E i \in DOMAIN seq : seq[i] = x

\* C2: a controller tracker emits AddedPod for a pod name, and starts a Pod
\* Tracker for it, only when the name is not in TrackedPods and no Pod Tracker
\* of that name is live.
C2_NoSecondAddedPod ==
    [][\A podName \in PodNames :
          Cardinality(About(feed', {"AddedPod"}, podName))
              > Cardinality(About(feed, {"AddedPod"}, podName))
          => (~InSeq(podName, d.TrackedPods) /\ Live(podName) = {})]_vars

\* the channel of the controller informer's events of a type
ResourceChan(t, type) ==
    IF type = "Added" THEN t.resourceAdded
    ELSE IF type = "Modified" THEN t.resourceModified
    ELSE t.resourceDeleted

\* the types of the informer's events that Track has yet to receive, in the
\* order the informer sent them
Unhandled ==
    SelectSeq(dInformer.order, LAMBDA type : ResourceChan(d, type) # <<>>)

\* C3: in one Track invocation of a controller tracker (Deployment or
\* DaemonSet) the Added feed event is emitted at most once, whatever the
\* sequence of controller Added, Modified and Deleted events.
C3_AddedAtMostOnce == AddedSends <= 1

\* C3 witness: the tracker has handled Added, Deleted and Added again (it ran
\* its informers twice and is in state Deleted) and has emitted Added once.
C3_Witness ==
    /\ d.State = "Deleted"
    /\ d.eventsInformers >= 2
    /\ Count(feed, "Added") = 1

\* C4: in the Deployment tracker the Added feed event is emitted before any
\* Ready and before any Failed event.
C4_AddedBeforeReadyAndFailed ==
    tracking = "deployment" =>
        \A i \in DOMAIN feed :
            feed[i].type \in {"Ready", "Failed"} =>
                \E j \in 1..(i - 1) : feed[j].type = "Added"

\* C5: the Deployment tracker decides to emit Ready only when the readiness
\* computed for the snapshot it handles is true and the readiness computed for
\* the snapshot it handled before (CurrentReady) was false.
C5_ReadyOnlyOnRisingEdge ==
    [][(tracking = "deployment" /\ d.pc = "select" /\ d'.pc = "Ready")
          => (~d.CurrentReady /\ d'.CurrentReady)]_vars

\* C6: in the DaemonSet tracker, between two Ready events the tracker has
\* reported a status that is not ready.
C6_DaemonSetReadyEdgeTriggered ==
    tracking = "daemonset" =>
        \A i \in DOMAIN feed : \A j \in DOMAIN feed :
            (i < j /\ feed[i].type = "Ready" /\ feed[j].type = "Ready") =>
                \E k \in (i + 1)..(j - 1) :
                    /\ feed[k].type = "StatusReport"
                    /\ feed[k].info # "complete"

\* C11: when Track of the Deployment tracker receives an event of the
\* controller informer, it is the oldest event of that informer that Track has
\* not yet received, whatever the types of the events.
C11_InformerEventsHandledInOrder ==
    [][\A type \in {"Added", "Modified", "Deleted"} :
          (tracking = "deployment"
             /\ Len(ResourceChan(d', type)) < Len(ResourceChan(d, type)))
          => Head(Unhandled) = type]_vars

\* C7: when the feed callback that TrackPod called last returned StopTrack,
\* whichever callback it is, TrackPod has returned nil.
C7_StopTrackReturnsNil ==
    (tracking = "pod" /\ calls # <<>> /\ Last(calls).err = "StopTrack")
        => (trackPod.pc = "returned" /\ trackPod.result = "nil")

\* C8: a feed callback that returned StopTrack or another error is the last
\* one TrackPod called, TrackPod has returned, and when the result was another
\* error TrackPod returned exactly that error.
C8_NoCallbackAfterErrorOrStop ==
    tracking = "pod" =>
        \A i \in DOMAIN calls :
            calls[i].err # "nil" =>
                /\ i = Len(calls)
                /\ trackPod.pc = "returned"
                /\ calls[i].err \in CallbackErrors => trackPod.result = calls[i].err

\* a callback returned an error after TrackPod had called others, and the
\* PodTracker still had a log chunk for TrackPod
C8_Witness ==
    /\ Len(calls) >= 2
    /\ Last(calls).err \in CallbackErrors
    /\ trackPod.result = Last(calls).err
    /\ pod.ContainerLogChunk # <<>>

\* the calls of feed.Succeeded and feed.Failed: TrackPod makes one for each
\* receipt on pod.Succeeded and pod.Failed
Completions == {i \in DOMAIN calls : calls[i].callback \in {"Succeeded", "Failed"}}

\* C12: the Pod Tracker sends on Succeeded (Failed) only with TrackedContainers
\* empty and the phase of the last pod snapshot Succeeded (Failed); it sends
\* on at most one of the two channels, once, and Track returns nil right after.
C12_CompletionRule ==
    tracking = "pod" =>
        /\ pod.pc \in {"Succeeded", "Failed"} =>
              (pod.TrackedContainers = <<>> /\ pod.lastObject.Phase = pod.pc)
        /\ Cardinality(Completions)
              + (IF pod.pc \in {"Succeeded", "Failed"} THEN 1 ELSE 0) <= 1
        /\ Completions # {} => (pod.pc \in {"doneChan", "exited"} /\ pod.err = "nil")

\* the pod failed, its container's log ended, the Pod Tracker sent on Failed
\* and TrackPod got the nil of pod.Track
C12_Witness ==
    /\ \E i \in Completions : calls[i].callback = "Failed"
    /\ pod.lastObject.Phase = "Failed"
    /\ pod.pc = "exited"
    /\ trackPod.pc = "returned"

\* the lines of a byte stream: what stands between the start or a '\n' and the
\* next '\n', in the order of the stream
PreviousNL(stream, i) ==
    LET before == {j \in 1..(i - 1) : stream[j] = NL}
    IN IF before = {} THEN 0 ELSE CHOOSE j \in before : \A k \in before : k <= j

RECURSIVE CompleteLines(_, _)
CompleteLines(stream, i) ==
    IF i = 0 THEN <<>>
    ELSE IF stream[i] = NL
    THEN Append(CompleteLines(stream, i - 1),
                SubSeq(stream, PreviousNL(stream, i) + 1, i - 1))
    ELSE CompleteLines(stream, i - 1)

\* a line split once at its first space
Spaces(line) == {j \in DOMAIN line : line[j] = SP}

SplitAtFirstSpace(line) ==
    LET first == CHOOSE j \in Spaces(line) : \A k \in Spaces(line) : j <= k
    IN [Timestamp |-> [i \in 1..(first - 1) |-> line[i]],
        Data |-> [i \in 1..(Len(line) - first) |-> line[first + i]]]

\* the log lines of a byte stream; lines without a space are left out
LogLinesOf(stream) ==
    LET withSpace == SelectSeq(CompleteLines(stream, Len(stream)),
                               LAMBDA line : Spaces(line) # {})
    IN [i \in DOMAIN withSpace |-> SplitAtFirstSpace(withSpace[i])]

\* the LogLines of the chunks, one chunk after the other
RECURSIVE Delivered(_)
Delivered(chunks) ==
    IF chunks = <<>> THEN <<>>
    ELSE Delivered(SubSeq(chunks, 1, Len(chunks) - 1)) \o Last(chunks).LogLines

\* the bytes that the Reads have returned so far
ReadSoFar == SubSeq(follower.whole, 1, Len(follower.whole) - Len(follower.stream))

\* C13: the LogLines of a container's chunks are, in order, the log lines of
\* the bytes read so far, however the stream is cut into Reads.
C13_LogLinesOfStream ==
    tracking = "logs" => Delivered(follower.chunks) = LogLinesOf(ReadSoFar)

\* a log of a line without a space and a line with one, which came in two
\* Reads that cut the second line, was followed to its end
C13_Witness ==
    /\ follower.pc = "returned"
    /\ Len(follower.chunks) = 2
    /\ follower.chunks[1].LogLines = <<>>
    /\ Len(follower.chunks[2].LogLines) = 1
    /\ Len(CompleteLines(follower.whole, Len(follower.whole))) = 2

\* C14: every chunk sent on ContainerLogChunk has at least one LogLine.
C14_NoEmptyChunk ==
    \A i \in DOMAIN follower.chunks : Len(follower.chunks[i].LogLines) >= 1

C16_FailureSequence ==
    [][Len(d'.resourceFailed) < Len(d.resourceFailed) =>
          /\ d'.State = "Failed"
          /\ d'.failedReason = Head(d.resourceFailed)
          /\ Len(feed') = Len(feed) + 1
          /\ Last(feed').type = "StatusReport"
          /\ d'.pc = "Failed"
          /\ d'.msg = Head(d.resourceFailed)]_vars

SiblingsEnded ==
    /\ podInformer.pc \in {"", "exited"}
    /\ \A c \in ContainerNames : containers[c].pc \in {"", "exited"}

\* C18: once the context is cancelled or PodTracker.Track has returned, the
\* informer goroutine and every container goroutine of the Pod Tracker
\* eventually end; none stays blocked on a send.
C18_SiblingsTerminate ==
    (tracking = "pod" /\ (ctxDone \/ pod.pc \in {"errorChan", "doneChan", "exited"}))
        ~> SiblingsEnded

\* C19: a container's tracked state, once ContainerTerminated, stays
\* ContainerTerminated whatever a later pod snapshot reports.
C19_TerminatedStays ==
    [][\A c \in DOMAIN pod.ContainerTrackerStates :
          pod.ContainerTrackerStates[c] = "ContainerTerminated"
          => pod'.ContainerTrackerStates[c] = "ContainerTerminated"]_vars

\* C20: a container tracker is started at most once for a container, and its
\* log follower is started at most once and only when the tracked state of the
\* container is ContainerRunning or ContainerTerminated.
C20_FollowerStartedOnce ==
    [][\A c \in ContainerNames :
          /\ containers'[c].started > containers[c].started
             => containers[c].started = 0
          /\ containers'[c].followed > containers[c].followed
             => /\ containers[c].followed = 0
                /\ pod.ContainerTrackerStates[c]
                      \in {"ContainerRunning", "ContainerTerminated"}]_vars

\* a second Added event and a later change of state have been handled after
\* the follower of a container was started
C20_Witness ==
    /\ tracking = "pod"
    /\ podInformer.added = 2
    /\ podInformer.pc = "watch"
    /\ pod.pc = "select"
    /\ \E c \in ContainerNames :
          /\ containers[c].followed = 1
          /\ pod.ContainerTrackerStates[c] = "ContainerWaiting"

\* C21: a container goroutine whose trackContainer has returned an error
\* (context cancellation included) goes on to send its container name on
\* containerDone, as one that ended on the end of the log does.
C21_ContainerDoneSent ==
    \A c \in ContainerNames :
        (tracking = "pod" /\ containers[c].pc = "errors") ~> (containers[c].pc = "exited")

\* C22: handling a pod-done signal of one Pod Tracker removes exactly one
\* entry from TrackedPods, so that TrackedPods keeps one entry for each Pod
\* Tracker that was started and has not signalled pod-done.
C22_PodDoneRemovesOneEntry ==
    [][Len(d'.podDone) < Len(d.podDone)
       => Len(d'.TrackedPods) = Len(d.TrackedPods) - 1]_vars

\* C23: the adapter of a Pod Tracker whose Start returned an error sends that
\* error on the errors channel of the Deployment tracker and then exits.
C23_AdapterSendsAndExits ==
    \A i \in 1..MaxPods :
        (i \in DOMAIN podTrackers /\ podTrackers[i].adapter = "errors")
            ~> (i \in DOMAIN podTrackers /\ podTrackers[i].adapter = "returned")

\* C24: a watch event of type Error delivered to the informer of the Pod
\* Tracker ends the informer with an error to be sent on pod.errors.
C24_ErrorEventEndsInformer ==
    [][PodInformerEvent("Error", NilPod) => podInformer'.pc = "errors"]_vars

\* C25: no container goroutine is reading pod.ContainerTrackerStates while
\* handleContainersState, called by the loop of Track, is writing it.
C25_NoReadDuringWrite ==
    \A c \in ContainerNames :
        ~(pod.pc = "handlePodState" /\ containers[c].pc = "read")

\* C26: once the loop of Track has received every event the replica sets
\* informer has sent, knownReplicaSets maps exactly the replica sets whose
\* latest event is not Deleted, each to the snapshot of its latest event.
C26_KnownReplicaSetsUpToDate ==
    (/\ tracking = "deployment"
     /\ d.replicaSetAdded = <<>>
     /\ d.replicaSetModified = <<>>
     /\ d.replicaSetDeleted = <<>>)
    => d.knownReplicaSets = rsInformer.produced

\* C27: the loop of Track of the Pod Tracker sends no ContainerError while it
\* handles a containerDone signal.
C27_NoContainerErrorOnContainerDone ==
    [][TrackContainerDone => pod'.pc # "ContainerError"]_vars

\* C28: in one run of Track of a controller tracker the replica sets informer,
\* the pods informer and the events informer are each started at most once.
C28_InformersStartedOnce ==
    /\ d.replicaSetsInformers <= 1
    /\ Len(podsInformers) <= 1
    /\ d.eventsInformers <= 1

\* C29: when TrackPod returns nil on the done signal of the Pod Tracker, no
\* chunk that a log follower sent is left on the ContainerLogChunk channel:
\* each was passed to feed.ContainerLogChunk.
C29_NoChunkLeftOnDone ==
    [][TrackPodDoneChan => pod.ContainerLogChunk = <<>>]_vars

\* the loop of Track, an adapter or a Pod Tracker is at a send
AtSend ==
    \/ d.pc \in {"Added", "Ready", "Failed", "PodError"}
    \/ \E i \in DOMAIN podTrackers :
          \/ podTrackers[i].adapter \in {"replicaSetPodError", "errors", "podDone"}
          \/ podTrackers[i].pc \in {"Added", "ContainerError", "Succeeded", "Failed",
                                   "errorChan", "doneChan"}

C9_CancelReturnsInterrupted ==
    (tracking = "deployment" /\ d.pc = "returned" /\ ctxDone
        /\ dInformer.err # "watch error")
    => d.result = "ErrTrackInterrupted"

\* C10: after the root context is cancelled, Track of the Deployment tracker
\* eventually returns.
C10_CancelLeadsToReturn ==
    (tracking = "deployment" /\ ctxDone) ~> (d.pc = "returned")
====
